---- MODULE Spec2Model ----
(***************************************************************************)
(* Model of the react-docs-mcp search engine: the in-memory document      *)
(* index (SearchEngine.documentIndex), its rebuild (indexDocuments), the  *)
(* lazy embedding pass (generateEmbeddings), keyword and hybrid search,   *)
(* the look-ups, and the update_docs tool handler, together with the      *)
(* parts of DocsManager and EmbeddingService they call.                   *)
(*                                                                         *)
(* JavaScript strings are sequences of one-character strings.  Scores are *)
(* exact rationals [num, den] (den > 0); the code computes them in IEEE   *)
(* doubles, which agree with the rationals on every value the model       *)
(* reaches up to rounding of the last bit.                                *)
(*                                                                         *)
(* Every async function is cut at its awaits: one action is the code that *)
(* runs between two awaits of one call, and calls in flight interleave at *)
(* those points only (single-threaded event loop).                        *)
(***************************************************************************)
EXTENDS Integers, Sequences, FiniteSets, TLC

(***************************************************************************)
(* Bounds of the model.                                                    *)
(***************************************************************************)
\* number of calls that can be in flight at the same time (Spec)
NumTasks == 2
\* number of times git pull can bring a new HEAD
MaxHead == 1
\* number of times the embedding pipeline can be loaded before the model
\* stops starting new loads
MaxLoads == 2

(***************************************************************************)
(* Strings.                                                                *)
(***************************************************************************)
\* upper-case / lower-case pairs of the letters used by the model
CasePairs == { <<"A", "a">>, <<"B", "b">>, <<"C", "c">>, <<"L", "l">>,
               <<"R", "r">>, <<"X", "x">>, <<"M", "m">>, <<"D", "d">> }

\* String.prototype.toLowerCase, one character
LowerChar(c) ==
  IF \E p \in CasePairs : p[1] = c
    THEN (CHOOSE p \in CasePairs : p[1] = c)[2]
    ELSE c

\* String.prototype.toUpperCase, one character
UpperChar(c) ==
  IF \E p \in CasePairs : p[2] = c
    THEN (CHOOSE p \in CasePairs : p[2] = c)[1]
    ELSE c

\* String.prototype.toLowerCase
ToLowerCase(s) == [i \in 1..Len(s) |-> LowerChar(s[i])]

\* String.prototype.slice(from, to) with 0-based, already clamped bounds
Slice(s, from, to) == IF to <= from THEN <<>> ELSE SubSeq(s, from + 1, to)

\* the term occurs in s at 0-based position i
OccursAt(s, term, i) ==
  /\ i + Len(term) <= Len(s)
  /\ \A j \in 1..Len(term) : s[i + j] = term[j]

\* String.prototype.includes
Includes(s, term) == \E i \in 0..Len(s) : OccursAt(s, term, i)

\* String.prototype.indexOf: first 0-based position, -1 when absent
IndexOf(s, term) ==
  IF Includes(s, term)
    THEN CHOOSE i \in 0..Len(s) :
           /\ OccursAt(s, term, i)
           /\ \A k \in 0..(i - 1) : ~OccursAt(s, term, k)
    ELSE -1

\* the white space characters of /\s/ that the model uses
IsSpace(c) == c \in {" ", "\n"}

\* String.prototype.trim
RECURSIVE TrimStart(_)
TrimStart(s) ==
  IF s # <<>> /\ IsSpace(Head(s)) THEN TrimStart(Tail(s)) ELSE s

RECURSIVE TrimEnd(_)
TrimEnd(s) ==
  IF s # <<>> /\ IsSpace(s[Len(s)])
    THEN TrimEnd(SubSeq(s, 1, Len(s) - 1))
    ELSE s

Trim(s) == TrimEnd(TrimStart(s))

\* String.prototype.split(sep) for a one-character separator: the pieces
\* between the positions of the separator, empty ones kept
Cuts(s, sep) ==
  <<0>> \o SelectSeq([i \in 1..Len(s) |-> i], LAMBDA i : s[i] = sep)
        \o <<Len(s) + 1>>

Pieces(s, cuts) ==
  [k \in 1..(Len(cuts) - 1) |-> SubSeq(s, cuts[k] + 1, cuts[k + 1] - 1)]

Split(s, sep) == Pieces(s, Cuts(s, sep))

\* Array.prototype.join(sep) of strings
RECURSIVE Join(_, _)
Join(parts, sep) ==
  IF parts = <<>> THEN <<>>
  ELSE IF Len(parts) = 1 THEN parts[1]
  ELSE parts[1] \o sep \o Join(Tail(parts), sep)

\* query.toLowerCase().split(/\s+/).filter(Boolean): once the empty pieces
\* are dropped a run of white space separates like a single blank
QueryTerms(query) ==
  SelectSeq(Split(ToLowerCase(query), " "), LAMBDA p : p # <<>>)

(***************************************************************************)
(* markdownParser.ts                                                       *)
(***************************************************************************)
\* s ends with ".md" (the regular expression /\.md$/)
EndsWithMd(s) ==
  /\ Len(s) >= 3
  /\ SubSeq(s, Len(s) - 2, Len(s)) = <<".", "m", "d">>

\* s.replace(/\.md$/, '')
StripMd(s) == IF EndsWithMd(s) THEN SubSeq(s, 1, Len(s) - 3) ELSE s

\* s.replace(/^\/+/, '')
RECURSIVE StripLeadingSlashes(_)
StripLeadingSlashes(s) ==
  IF s # <<>> /\ Head(s) = "/" THEN StripLeadingSlashes(Tail(s)) ELSE s

\* normalizePath: backslashes to slashes, no leading slash, no final .md
NormalizePath(filePath) ==
  StripMd(StripLeadingSlashes(
    [i \in 1..Len(filePath) |->
       IF filePath[i] = "\\" THEN "/" ELSE filePath[i]]))

\* extractSection: first segment of the normalized path, or 'unknown'
OrDefault(part, default) == IF part # <<>> THEN part ELSE default

ExtractSection(path) ==
  OrDefault(Split(NormalizePath(path), "/")[1],
            <<"u", "n", "k", "n", "o", "w", "n">>)

\* word.charAt(0).toUpperCase() + word.slice(1)
Capitalize(word) ==
  IF word = <<>> THEN <<>> ELSE <<UpperChar(word[1])>> \o Tail(word)

\* extractTitleFromPath: last segment, - and _ to blanks, words capitalized
Last(parts) == parts[Len(parts)]

CapitalizeAll(words) == [i \in 1..Len(words) |-> Capitalize(words[i])]

TitleFromFilename(filename) ==
  Join(CapitalizeAll(Split([i \in 1..Len(filename) |->
                              IF filename[i] \in {"-", "_"}
                                THEN " " ELSE filename[i]], " ")),
       <<" ">>)

ExtractTitleFromPath(filePath) ==
  TitleFromFilename(OrDefault(Last(Split(NormalizePath(filePath), "/")),
                              <<"U", "n", "t", "i", "t", "l", "e", "d">>))

\* An optional value (a field that may be undefined) is a sequence of
\* length 0 or 1.
None == <<>>

Some(x) == <<x>>

IsSome(o) == Len(o) = 1

\* parseMarkdown.  A file content is what gray-matter and remark extract
\* from it: [title, description, body], title and description optional;
\* body is the stripped text before the white-space normalisation.  A
\* record starts without an embedding; a vector is never empty, and the
\* empty vector stands for embedding === undefined.
NormalizeWhitespace(text) ==
  Trim(Join(SelectSeq(Split(text, " "), LAMBDA p : p # <<>>), <<" ">>))

NoEmbedding == <<>>

ParseMarkdown(content, path) ==
  [ path        |-> NormalizePath(path),
    section     |-> ExtractSection(path),
    title       |-> IF IsSome(content.title) /\ content.title[1] # <<>>
                      THEN content.title[1]
                      ELSE ExtractTitleFromPath(path),
    description |-> content.description,
    plainText   |-> NormalizeWhitespace(content.body),
    embedding   |-> NoEmbedding ]

(***************************************************************************)
(* Numbers.  A score is a reduced fraction num/den with den > 0.          *)
(***************************************************************************)
Abs(n) == IF n < 0 THEN -n ELSE n

Min(a, b) == IF a <= b THEN a ELSE b

Max(a, b) == IF a >= b THEN a ELSE b

RECURSIVE Gcd(_, _)
Gcd(a, b) == IF b = 0 THEN a ELSE Gcd(b, a % b)

Rat(n, d) ==
  LET g == Gcd(Abs(n), d)
  IN  [num |-> n \div g, den |-> d \div g]

RatAdd(a, b) == Rat(a.num * b.den + b.num * a.den, a.den * b.den)

RatMul(a, b) == Rat(a.num * b.num, a.den * b.den)

RatGeq(a, b) == a.num * b.den >= b.num * a.den

RatGt(a, b) == a.num * b.den > b.num * a.den

Zero == Rat(0, 1)

(***************************************************************************)
(* config.ts                                                               *)
(***************************************************************************)
DefaultLimit == 10
MaxLimit == 50
MinScore == Rat(1, 10)
SemanticSearchEnabled == TRUE
SemanticMinSimilarity == Rat(3, 10)
HybridKeywordWeight == Rat(3, 10)
HybridSemanticWeight == Rat(7, 10)

(***************************************************************************)
(* embeddingService.ts: cosineSimilarity                                   *)
(***************************************************************************)
\* Math.sqrt; the vectors of the model have integer norms, so the root is
\* exact
Sqrt(n) == CHOOSE r \in 0..n : r * r = n

RECURSIVE SumOver(_, _)
SumOver(f, n) == IF n = 0 THEN 0 ELSE f[n] + SumOver(f, n - 1)

\* variant without the test of the lengths
CosineNeverThrows(a, b) == FALSE

\* cosineSimilarity throws when the lengths differ
CosineThrows(a, b) == Len(a) # Len(b)

\* the number that an arithmetic operation on undefined gives
NaN == [num |-> 0, den |-> 0]

\* cosineSimilarity past the test of the lengths: the loop runs over the
\* indices of a, and reads undefined from b when b is the shorter
CosineSimilarity(a, b) ==
  IF Len(a) > Len(b) THEN NaN ELSE
  LET dotProduct == SumOver([i \in 1..Len(a) |-> a[i] * b[i]], Len(a))
      normA      == SumOver([i \in 1..Len(a) |-> a[i] * a[i]], Len(a))
      normB      == SumOver([i \in 1..Len(a) |-> b[i] * b[i]], Len(a))
      magnitude  == Sqrt(normA) * Sqrt(normB)
  IN  IF magnitude = 0 THEN Zero ELSE Rat(dotProduct, magnitude)

(***************************************************************************)
(* searchEngine.ts: scoring                                                *)
(***************************************************************************)
\* new RegExp(term, 'gi').  Of the pattern syntax the model has: a letter,
\* '/', '-' or ' ' matches itself (ignoring case), '.' matches any
\* character, and '(' opens a group that nothing closes, for which the
\* constructor throws a SyntaxError.
RegExpThrows(term) == \E j \in 1..Len(term) : term[j] = "("

\* the pattern matches the text at 0-based position i
RegExpMatchesAt(text, term, i) ==
  /\ i + Len(term) <= Len(text)
  /\ \A j \in 1..Len(term) :
       \/ term[j] = "."
       \/ LowerChar(text[i + j]) = LowerChar(term[j])

\* text.match(regex) with the g flag: the matches are found left to right
\* and do not overlap; their number (0 for null)
RECURSIVE MatchCountFrom(_, _, _)
MatchCountFrom(text, term, i) ==
  IF i + Len(term) > Len(text) THEN 0
  ELSE IF RegExpMatchesAt(text, term, i)
    THEN 1 + MatchCountFrom(text, term, i + Len(term))
    ELSE MatchCountFrom(text, term, i + 1)

MatchCount(text, term) == MatchCountFrom(text, term, 0)

TitleWeight == 10
PathWeight == 5
DescriptionWeight == 3
BodyWeight == Rat(1, 2)

\* doc.metadata.description?.toLowerCase().includes(term)
DescriptionIncludes(doc, term) ==
  /\ IsSome(doc.description)
  /\ Includes(ToLowerCase(doc.description[1]), term)

\* what one term adds to the score in scoreDocument
TermScore(doc, term) ==
  LET title == IF Includes(ToLowerCase(doc.title), term)
                 THEN Rat(TitleWeight, 1) ELSE Zero
      path  == IF Includes(ToLowerCase(doc.path), term)
                 THEN Rat(PathWeight, 1) ELSE Zero
      body  == RatMul(Rat(MatchCount(ToLowerCase(doc.plainText), term), 1),
                      BodyWeight)
      desc  == IF DescriptionIncludes(doc, term)
                 THEN Rat(DescriptionWeight, 1) ELSE Zero
  IN  RatAdd(RatAdd(title, path), RatAdd(body, desc))

\* scoreDocument throws when the RegExp constructor throws on a term
ScoreDocumentThrows(queryTerms) ==
  \E k \in 1..Len(queryTerms) : RegExpThrows(queryTerms[k])

\* scoreDocument, when it does not throw
RECURSIVE ScoreDocument(_, _)
ScoreDocument(doc, queryTerms) ==
  IF queryTerms = <<>> THEN Zero
  ELSE RatAdd(TermScore(doc, Head(queryTerms)),
              ScoreDocument(doc, Tail(queryTerms)))

(***************************************************************************)
(* searchEngine.ts: generateSnippet                                        *)
(***************************************************************************)
ContextRadius == 75
FallbackLength == 150
Ellipsis == <<".", ".", ".">>

\* the loop over the terms: the pair <<firstMatchIndex, matchedTerm>>
RECURSIVE FirstMatch(_, _, _)
Earlier(index, term, best) ==
  IF index # -1 /\ (best[1] = -1 \/ index < best[1])
    THEN <<index, term>> ELSE best

FirstMatch(plainText, queryTerms, best) ==
  IF queryTerms = <<>> THEN best
  ELSE FirstMatch(plainText, Tail(queryTerms),
                  Earlier(IndexOf(ToLowerCase(plainText), Head(queryTerms)),
                          Head(queryTerms), best))

\* the snippet cut around a match: plainText.slice(start, end), an
\* ellipsis on each side that was cut, then trim()
SnippetBetween(plainText, start, end) ==
  Trim((IF start > 0 THEN Ellipsis ELSE <<>>)
       \o Slice(plainText, start, end)
       \o (IF end < Len(plainText) THEN Ellipsis ELSE <<>>))

\* variant that takes a description whenever one is given, empty or not
SnippetFallbackGiven(doc) ==
  IF IsSome(doc.description)
    THEN doc.description[1]
    ELSE Slice(doc.plainText, 0, Min(FallbackLength, Len(doc.plainText)))
           \o Ellipsis

\* the snippet when no term matches
SnippetFallback(doc) ==
  IF IsSome(doc.description) /\ doc.description[1] # <<>>
    THEN doc.description[1]
    ELSE Slice(doc.plainText, 0, Min(FallbackLength, Len(doc.plainText)))
           \o Ellipsis

\* variant whose window leaves the length of the term out
SnippetAtPosition(doc, firstMatchIndex, matchedTerm) ==
  IF firstMatchIndex = -1 THEN SnippetFallback(doc)
  ELSE SnippetBetween(doc.plainText,
         Max(0, firstMatchIndex - ContextRadius),
         Min(Len(doc.plainText), firstMatchIndex + ContextRadius))

SnippetAt(doc, firstMatchIndex, matchedTerm) ==
  IF firstMatchIndex = -1 THEN SnippetFallback(doc)
  ELSE SnippetBetween(doc.plainText,
         Max(0, firstMatchIndex - ContextRadius),
         Min(Len(doc.plainText),
             firstMatchIndex + Len(matchedTerm) + ContextRadius))

SnippetOf(doc, found) == SnippetAt(doc, found[1], found[2])

GenerateSnippet(doc, queryTerms) ==
  SnippetOf(doc, FirstMatch(doc.plainText, queryTerms, <<-1, <<>>>>))

(***************************************************************************)
(* searchEngine.ts: keywordSearch and the synchronous part of             *)
(* semanticSearch.  The document index is the sequence of its records in  *)
(* insertion order (the iteration order of a Map).  options is the record *)
(* [section, limit, minScore, useSemanticSearch] of optional values; an   *)
(* absent options object is the record of four absent fields.             *)
(***************************************************************************)
NoOptions ==
  [section |-> None, limit |-> None, minScore |-> None,
   useSemanticSearch |-> None]

\* Math.min(options?.limit || CONFIG.search.defaultLimit, maxLimit)
EffectiveLimit(options) ==
  Min(IF IsSome(options.limit) /\ options.limit[1] # 0
        THEN options.limit[1] ELSE DefaultLimit,
      MaxLimit)

\* variant with || in place of ??: a minimum of 0 falls back to the default
MinScoreOrDefault(options) ==
  IF IsSome(options.minScore) /\ options.minScore[1] # Zero
    THEN options.minScore[1] ELSE MinScore

\* options?.minScore ?? CONFIG.search.minScore
EffectiveMinScore(options) ==
  IF IsSome(options.minScore) THEN options.minScore[1] ELSE MinScore

\* variant that ignores the option
UseConfiguredMode(options) == SemanticSearchEnabled

\* options?.useSemanticSearch ?? CONFIG.search.semanticSearchEnabled
UseSemanticSearch(options) ==
  IF IsSome(options.useSemanticSearch)
    THEN options.useSemanticSearch[1] ELSE SemanticSearchEnabled

\* the negation of: sectionFilter && doc.section.toLowerCase() !== sectionFilter
PassesSectionFilter(doc, options) ==
  \/ ~IsSome(options.section)
  \/ options.section[1] = <<>>
  \/ ToLowerCase(doc.section) = ToLowerCase(options.section[1])

\* Array.prototype.slice(0, limit)
SliceTo(arr, limit) ==
  LET end == IF limit < 0 THEN Max(Len(arr) + limit, 0)
             ELSE Min(limit, Len(arr))
  IN  SubSeq(arr, 1, end)

\* results.sort((a, b) => b.score - a.score): a stable sort, by insertion
RECURSIVE InsertByScore(_, _)
InsertByScore(sorted, r) ==
  IF sorted = <<>> THEN <<r>>
  ELSE IF RatGt(r.score, Head(sorted).score)
    THEN <<r>> \o sorted
    ELSE <<Head(sorted)>> \o InsertByScore(Tail(sorted), r)

RECURSIVE SortFrom(_, _)
SortFrom(sorted, rest) ==
  IF rest = <<>> THEN sorted
  ELSE SortFrom(InsertByScore(sorted, Head(rest)), Tail(rest))

\* variant without the sort
SortLeftOut(results) == results

SortByScoreDescending(results) == SortFrom(<<>>, results)

\* the test that admits a record to the keyword results
KeywordQualifies(score, minScore) == RatGeq(score, minScore)

\* the outcome of a search: [status, error, results (the sorted array),
\* value (what is returned)]
Ranked(sorted, limit) ==
  [status |-> "ok", error |-> "",
   results |-> sorted, value |-> SliceTo(sorted, limit)]

Failed(error) ==
  [status |-> "error", error |-> error, results |-> <<>>, value |-> <<>>]

\* what the loop of keywordSearch computes for each record, in store order
KeywordScored(docs, queryTerms) ==
  [k \in 1..Len(docs) |->
     [doc     |-> docs[k],
      score   |-> ScoreDocument(docs[k], queryTerms),
      snippet |-> GenerateSnippet(docs[k], queryTerms)]]

\* keywordSearch over the records that pass the section filter
KeywordOver(docs, queryTerms, options) ==
  IF docs # <<>> /\ ScoreDocumentThrows(queryTerms)
    THEN Failed("SyntaxError")
    ELSE Ranked(SortByScoreDescending(
                  SelectSeq(KeywordScored(docs, queryTerms), LAMBDA r :
                    KeywordQualifies(r.score, EffectiveMinScore(options)))),
                EffectiveLimit(options))

KeywordSearch(index, query, options) ==
  KeywordOver(SelectSeq(index, LAMBDA d : PassesSectionFilter(d, options)),
              QueryTerms(query), options)

\* the hybrid score of semanticSearch
\* variant with the two weights exchanged
HybridScoreExchanged(keywordScore, semanticScore) ==
  RatAdd(RatMul(HybridSemanticWeight, keywordScore),
         RatMul(HybridKeywordWeight, semanticScore))

HybridScore(keywordScore, semanticScore) ==
  RatAdd(RatMul(HybridKeywordWeight, keywordScore),
         RatMul(HybridSemanticWeight, semanticScore))

\* variant that applies the test of keywordSearch to the combined score
QualifiesByScore(semanticScore, hybridScore) ==
  RatGeq(hybridScore, MinScore)

\* the test that admits a record to the hybrid results
SemanticQualifies(semanticScore, hybridScore) ==
  RatGeq(semanticScore, SemanticMinSimilarity)

\* what the loop of semanticSearch computes for one record
HybridEntry(doc, keywordScore, semanticScore, snippet) ==
  [doc      |-> doc,
   score    |-> HybridScore(keywordScore, semanticScore),
   semantic |-> semanticScore,
   snippet  |-> snippet]

SemanticScored(docs, queryEmbedding, queryTerms) ==
  [k \in 1..Len(docs) |->
     HybridEntry(docs[k],
                 RatMul(ScoreDocument(docs[k], queryTerms), Rat(1, 100)),
                 CosineSimilarity(queryEmbedding, docs[k].embedding),
                 GenerateSnippet(docs[k], queryTerms))]

\* the results pushed: { doc, score: hybridScore, snippet }
AsResults(kept) ==
  [k \in 1..Len(kept) |->
     [doc |-> kept[k].doc, score |-> kept[k].score,
      snippet |-> kept[k].snippet]]

\* semanticSearch over the embedded records that pass the section filter
SemanticOver(docs, queryEmbedding, queryTerms, options) ==
  IF docs # <<>> /\ ScoreDocumentThrows(queryTerms)
    THEN Failed("SyntaxError")
  ELSE IF \E k \in 1..Len(docs) :
            CosineThrows(queryEmbedding, docs[k].embedding)
    THEN Failed("Vectors must have same length")
  ELSE Ranked(SortByScoreDescending(AsResults(
                SelectSeq(SemanticScored(docs, queryEmbedding, queryTerms),
                          LAMBDA r : SemanticQualifies(r.semantic, r.score)))),
              EffectiveLimit(options))

\* semanticSearch from the filter on, once the query embedding is there
SemanticRank(index, queryEmbedding, query, options) ==
  SemanticOver(SelectSeq(index, LAMBDA d :
                 /\ PassesSectionFilter(d, options)
                 /\ d.embedding # NoEmbedding),
               queryEmbedding, QueryTerms(query), options)

(***************************************************************************)
(* The corpus on disk: what fast-glob lists and fs.readFile returns at    *)
(* each HEAD of the cloned repository.  Two revisions alternate: the even *)
(* ones hold R/b.md and l/a.md.md, the odd ones l/x.md alone.             *)
(***************************************************************************)
FileX == <<"l", "/", "x", ".", "m", "d">>
FileB == <<"R", "/", "b", ".", "m", "d">>
FileAmd == <<"l", "/", "a", ".", "m", "d", ".", "m", "d">>

\* fg('**/*.md', {cwd: contentPath}) at a HEAD
DiskListing(h) ==
  IF h % 2 = 0 THEN <<FileB, FileAmd>> ELSE <<FileX>>

InListing(file, listing) == \E k \in 1..Len(listing) : listing[k] = file

\* what the frontmatter and the markdown body of a file hold
FileContent(file) ==
  IF file = FileX THEN
    [title |-> Some(<<"a">>), description |-> Some(<<"b">>),
     body |-> <<"a", "b", " ", " ", "a">>]
  ELSE IF file = FileB THEN
    [title |-> None, description |-> None, body |-> <<"c", ".", "c">>]
  ELSE
    [title |-> Some(<<"c">>), description |-> Some(<<"A", " ", "b">>),
     body |-> <<"a">>]

(***************************************************************************)
(* State.                                                                  *)
(***************************************************************************)
VARIABLES
  documentIndex,        \* SearchEngine.documentIndex, in insertion order
  indexed,              \* SearchEngine.indexed
  embeddingsGenerated,  \* SearchEngine.embeddingsGenerated
  initialized,          \* EmbeddingService.initialized
  loads,                \* calls of pipeline(...) so far, up to MaxLoads
  fileCache,            \* DocsManager.fileCache, the entry of key 'all'
  head,                 \* HEAD of the local clone
  tasks                 \* the calls in flight, and the last result of each

vars ==
  <<documentIndex, indexed, embeddingsGenerated, initialized, loads,
    fileCache, head, tasks>>

Tasks == 1..NumTasks

\* the state as one record, so that the synchronous stretches of code can
\* be composed as functions from state to state
Cur ==
  [documentIndex |-> documentIndex, indexed |-> indexed,
   embeddingsGenerated |-> embeddingsGenerated,
   initialized |-> initialized, loads |-> loads,
   fileCache |-> fileCache, head |-> head, tasks |-> tasks]

Becomes(s) ==
  /\ documentIndex' = s.documentIndex
  /\ indexed' = s.indexed
  /\ embeddingsGenerated' = s.embeddingsGenerated
  /\ initialized' = s.initialized
  /\ loads' = s.loads
  /\ fileCache' = s.fileCache
  /\ head' = s.head
  /\ tasks' = s.tasks

NoPrev == [valid |-> FALSE, index |-> <<>>, fails |-> <<>>]

\* a call: its operation and arguments, its position (pc), its locals and,
\* once pc = "done", its outcome
NewTask(op, query, options, path) ==
  [op |-> op, pc |-> "start", query |-> query, options |-> options,
   path |-> path,
   allDocs |-> <<>>,     \* indexDocuments: allDocs
   scan |-> FALSE,       \* getAllDocs: fast-glob is running
   i |-> 0,              \* indexDocuments: position in allDocs
   oks |-> <<>>,         \* the records this rebuild has inserted
   fails |-> <<>>,       \* the files this rebuild has skipped
   prev |-> NoPrev,      \* the rebuild that ended right before this call
   before |-> <<>>,      \* the index as indexDocuments found it, while
                         \* getAllDocs is awaited
   loading |-> FALSE,    \* initialize: pipeline(...) is running
   iter |-> 0,           \* generateEmbeddings: entries the iterator passed
   cur |-> <<>>,         \* generateEmbeddings: path of doc
   curLive |-> FALSE,    \* doc is still the object the index holds
   beforeHash |-> 0,     \* updateRepo: beforeHash
   queryEmbedding |-> NoEmbedding,  \* semanticSearch: queryEmbedding
   status |-> "pending", error |-> "", results |-> <<>>, value |-> <<>>]

IdleTask == [NewTask("none", <<>>, NoOptions, <<>>) EXCEPT !.pc = "idle"]

Init ==
  /\ documentIndex = <<>>
  /\ indexed = FALSE
  /\ embeddingsGenerated = FALSE
  /\ initialized = FALSE
  /\ loads = 0
  /\ fileCache = None
  /\ head = 0
  /\ tasks = [t \in Tasks |-> IdleTask]

(***************************************************************************)
(* The end of a call.                                                      *)
(***************************************************************************)
\* the call returns: results is the array before the final slice
Return(s, t, results, value) ==
  [s EXCEPT !.tasks[t].pc = "done", !.tasks[t].status = "ok",
            !.tasks[t].results = results, !.tasks[t].value = value,
            !.tasks[t].i = 0, !.tasks[t].scan = FALSE,
            !.tasks[t].loading = FALSE, !.tasks[t].iter = 0,
            !.tasks[t].cur = <<>>, !.tasks[t].curLive = FALSE,
            !.tasks[t].beforeHash = 0, !.tasks[t].before = <<>>]

\* the call throws; nothing on its way up catches without rethrowing
Throw(s, t, error) ==
  [s EXCEPT !.tasks[t].pc = "done", !.tasks[t].status = "error",
            !.tasks[t].error = error,
            !.tasks[t].i = 0, !.tasks[t].scan = FALSE,
            !.tasks[t].loading = FALSE, !.tasks[t].iter = 0,
            !.tasks[t].cur = <<>>, !.tasks[t].curLive = FALSE,
            !.tasks[t].beforeHash = 0, !.tasks[t].before = <<>>]

(***************************************************************************)
(* Map operations on the document index.                                   *)
(***************************************************************************)
\* position of the entry of a key, 0 when the Map has none
IndexPos(index, path) ==
  IF \E k \in 1..Len(index) : index[k].path = path
    THEN CHOOSE k \in 1..Len(index) : index[k].path = path
    ELSE 0

\* Map.prototype.set: a new key goes last, a known key keeps its place
MapSet(index, doc) ==
  IF IndexPos(index, doc.path) = 0 THEN Append(index, doc)
  ELSE [index EXCEPT ![IndexPos(index, doc.path)] = doc]

\* this.documentIndex.get(path) || null
MapGet(index, path) ==
  IF IndexPos(index, path) = 0 THEN None
  ELSE Some(index[IndexPos(index, path)])

(***************************************************************************)
(* indexDocuments                                                          *)
(***************************************************************************)
InRebuild(task) == task.pc \in {"getAllDocs", "readDoc"}

\* what follows the return of indexDocuments: its own callers get their
\* result, the lazy callers resume after their await
IndexReturns(s, t) ==
  IF s.tasks[t].op = "indexDocuments" THEN Return(s, t, <<>>, <<>>)
  ELSE IF s.tasks[t].op = "update_docs" THEN Return(s, t, <<>>, <<TRUE>>)
  ELSE [s EXCEPT !.tasks[t].pc = "afterIndex"]

\* variant that, after the clear, does not rebuild an index already built
IndexBeginOnce(s, t) ==
  IF s.indexed THEN IndexReturns([s EXCEPT !.documentIndex = <<>>], t)
  ELSE [s EXCEPT
     !.documentIndex = <<>>,
     !.tasks[t].pc = "getAllDocs",
     !.tasks[t].scan = ~IsSome(s.fileCache),
     !.tasks[t].allDocs = IF IsSome(s.fileCache) THEN s.fileCache[1] ELSE <<>>]

\* documentIndex.clear() and the call of getAllDocs, up to its await.  The
\* clear empties the Map under every iterator that is walking it (they go
\* on with the entries added afterwards), and the records it held are no
\* longer the ones in the index.
IndexBegin(s, t) ==
  [s EXCEPT
     !.documentIndex = <<>>,
     !.tasks = [u \in Tasks |->
        IF u = t
          THEN [s.tasks[u] EXCEPT
                  !.pc = "getAllDocs",
                  !.scan = ~IsSome(s.fileCache),
                  !.allDocs = IF IsSome(s.fileCache)
                                THEN s.fileCache[1] ELSE <<>>,
                  !.i = 0, !.oks = <<>>, !.fails = <<>>,
                  !.iter = 0, !.curLive = FALSE,
                  !.before = s.documentIndex]
          ELSE [s.tasks[u] EXCEPT !.iter = 0, !.curLive = FALSE]]]

\* the loop head of indexDocuments, and its end: indexed = true
IndexLoop(s, t) ==
  IF s.tasks[t].i < Len(s.tasks[t].allDocs)
    THEN [s EXCEPT !.tasks[t].pc = "readDoc", !.tasks[t].i = @ + 1]
    ELSE IndexReturns([s EXCEPT !.indexed = TRUE], t)

\* getAllDocs returns: from the cache, or after the scan, which fills the
\* cache; a scan that fails rejects and indexDocuments rejects with it
GetAllDocsReturns(s, t, ok) ==
  IF ~s.tasks[t].scan THEN IndexLoop([s EXCEPT !.tasks[t].before = <<>>], t)
  ELSE IF ~ok THEN Throw(s, t, "getAllDocs")
  ELSE IndexLoop([s EXCEPT !.fileCache = Some(DiskListing(s.head)),
                           !.tasks[t].allDocs = DiskListing(s.head),
                           !.tasks[t].scan = FALSE,
                           !.tasks[t].before = <<>>], t)

\* one turn of the loop: readDoc and parseMarkdown of allDocs[i], then the
\* set.  A failed read or parse is caught and the document skipped.  The
\* set replaces the record other calls may hold under the same key.
IndexSet(s, t, doc) ==
  [s EXCEPT
     !.documentIndex = MapSet(@, doc),
     !.tasks = [u \in Tasks |->
        IF u = t THEN [s.tasks[u] EXCEPT !.oks = Append(@, doc)]
        ELSE IF s.tasks[u].cur = doc.path
          THEN [s.tasks[u] EXCEPT !.curLive = FALSE]
          ELSE s.tasks[u]]]

ReadFile(s, t, ok, file) ==
  IF ~ok THEN IndexLoop([s EXCEPT !.tasks[t].fails = Append(@, file)], t)
  ELSE IndexLoop(IndexSet(s, t, ParseMarkdown(FileContent(file), file)), t)

ReadDocReturns(s, t, ok) ==
  ReadFile(s, t, ok, s.tasks[t].allDocs[s.tasks[t].i])

(***************************************************************************)
(* generateEmbeddings and EmbeddingService.initialize                      *)
(***************************************************************************)
InEmbeddingPass(task) == task.pc \in {"initialize", "embedDoc"}

\* what follows the return of generateEmbeddings
EmbeddingsReturn(s, t) ==
  IF s.tasks[t].op = "generateEmbeddings" THEN Return(s, t, <<>>, <<>>)
  ELSE [s EXCEPT !.tasks[t].pc = "afterEmbeddings"]

\* variant without the early return
EmbeddingsBeginAlways(s, t) ==
  IF s.initialized
    THEN [s EXCEPT !.tasks[t].pc = "initialize",
                   !.tasks[t].loading = FALSE, !.tasks[t].iter = 0]
    ELSE [s EXCEPT !.tasks[t].pc = "initialize",
                   !.tasks[t].loading = TRUE, !.tasks[t].iter = 0,
                   !.loads = Min(@ + 1, MaxLoads)]

\* generateEmbeddings up to its first await: the early return, or the call
\* of initialize, which returns at once when initialized and otherwise
\* starts loading the pipeline
EmbeddingsBegin(s, t) ==
  IF s.embeddingsGenerated THEN EmbeddingsReturn(s, t)
  ELSE IF s.initialized
    THEN [s EXCEPT !.tasks[t].pc = "initialize",
                   !.tasks[t].loading = FALSE, !.tasks[t].iter = 0]
    ELSE [s EXCEPT !.tasks[t].pc = "initialize",
                   !.tasks[t].loading = TRUE, !.tasks[t].iter = 0,
                   !.loads = Min(@ + 1, MaxLoads)]

\* the loop head of generateEmbeddings: the iterator yields the next entry
\* and its embedding is requested, or the loop ends and the flag is set
EmbedLoop(s, t) ==
  IF s.tasks[t].iter < Len(s.documentIndex)
    THEN [s EXCEPT !.tasks[t].pc = "embedDoc",
                   !.tasks[t].iter = @ + 1,
                   !.tasks[t].cur = s.documentIndex[s.tasks[t].iter + 1].path,
                   !.tasks[t].curLive = TRUE]
    ELSE EmbeddingsReturn([s EXCEPT !.embeddingsGenerated = TRUE], t)

\* initialize returns: a load that fails rejects, and generateEmbeddings
\* rethrows
InitializeReturns(s, t, ok) ==
  IF ~s.tasks[t].loading THEN EmbedLoop(s, t)
  ELSE IF ~ok THEN Throw(s, t, "Embedding initialization failed")
  ELSE EmbedLoop([s EXCEPT !.initialized = TRUE,
                           !.tasks[t].loading = FALSE], t)

\* variant that sets the flag before it rethrows
EmbedDocReturnsReady(s, t, ok, embedding) ==
  IF ~ok
    THEN Throw([s EXCEPT !.embeddingsGenerated = TRUE], t,
               "Embedding generation failed")
  ELSE IF s.tasks[t].curLive
    THEN EmbedLoop(
      [s EXCEPT !.documentIndex[IndexPos(s.documentIndex, s.tasks[t].cur)]
                   .embedding = embedding], t)
    ELSE EmbedLoop(s, t)

\* generateEmbedding(embeddingText) returns: doc.embedding = embedding on
\* the object the loop holds, which the index still has or not
EmbedDocReturns(s, t, ok, embedding) ==
  IF ~ok THEN Throw(s, t, "Embedding generation failed")
  ELSE IF s.tasks[t].curLive
    THEN EmbedLoop(
      [s EXCEPT !.documentIndex[IndexPos(s.documentIndex, s.tasks[t].cur)]
                   .embedding = embedding], t)
    ELSE EmbedLoop(s, t)

(***************************************************************************)
(* search, getDocByPath, getDocsBySection                                  *)
(***************************************************************************)
\* semanticSearch from the call of generateEmbedding(query)
EmbedQueryBegin(s, t) == [s EXCEPT !.tasks[t].pc = "embedQuery"]

\* search after the index is ensured
\* the call ends as the search did
Outcome(s, t, r) ==
  IF r.status = "ok" THEN Return(s, t, r.results, r.value)
  ELSE Throw(s, t, r.error)

SearchBody(s, t) ==
  IF Trim(s.tasks[t].query) = <<>> THEN Return(s, t, <<>>, <<>>)
  ELSE IF UseSemanticSearch(s.tasks[t].options)
    THEN IF ~s.embeddingsGenerated THEN EmbeddingsBegin(s, t)
         ELSE EmbedQueryBegin(s, t)
    ELSE Outcome(s, t, KeywordSearch(s.documentIndex, s.tasks[t].query,
                                     s.tasks[t].options))

\* generateEmbedding(query) returns and semanticSearch runs to its end
EmbedQueryReturns(s, t, ok, queryEmbedding) ==
  IF ~ok THEN Throw(s, t, "Embedding generation failed")
  ELSE Outcome([s EXCEPT !.tasks[t].queryEmbedding = queryEmbedding], t,
               SemanticRank(s.documentIndex, queryEmbedding,
                            s.tasks[t].query, s.tasks[t].options))

\* variant that looks the path up as it is given
GetDocByPathAsGiven(index, path) == MapGet(index, path)

\* this.documentIndex.get(path.replace(/\.md$/, '')) || null
GetDocByPathValue(index, path) == MapGet(index, StripMd(path))

\* variant that raises an error when the path has no record
GetDocByPathOrThrow(s, t) ==
  IF IsSome(GetDocByPathValue(s.documentIndex, s.tasks[t].path))
    THEN Return(s, t, <<>>,
                GetDocByPathValue(s.documentIndex, s.tasks[t].path))
    ELSE Throw(s, t, "Document not found")

\* getDocByPath after the index is ensured
GetDocByPathBody(s, t) ==
  Return(s, t, <<>>, GetDocByPathValue(s.documentIndex, s.tasks[t].path))

\* getDocsBySection after the index is ensured
GetDocsBySectionBody(s, t) ==
  Return(s, t, <<>>,
         SelectSeq(s.documentIndex, LAMBDA d :
           ToLowerCase(d.section) = ToLowerCase(s.tasks[t].path)))

\* the code after `if (!this.indexed) await this.indexDocuments()`
Body(s, t) ==
  IF s.tasks[t].op = "search" THEN SearchBody(s, t)
  ELSE IF s.tasks[t].op = "getDocByPath" THEN GetDocByPathBody(s, t)
  ELSE GetDocsBySectionBody(s, t)

\* variant without the test of the flag: no reader ever rebuilds
EnsureNothing(s, t) == Body(s, t)

\* the three readers start alike
EnsureIndexed(s, t) == IF ~s.indexed THEN IndexBegin(s, t) ELSE Body(s, t)

(***************************************************************************)
(* DocsManager.updateRepo and the update_docs handler of index.ts          *)
(***************************************************************************)
\* git.revparse(['HEAD']) returns beforeHash
RevparseBeforeReturns(s, t, ok) ==
  IF ~ok THEN Throw(s, t, "Failed to update repository")
  ELSE [s EXCEPT !.tasks[t].beforeHash = s.head, !.tasks[t].pc = "pull"]

\* git.pull() returns, having brought a new HEAD or not
PullReturns(s, t, ok, newCommit) ==
  IF ~ok THEN Throw(s, t, "Failed to update repository")
  ELSE [s EXCEPT !.head = IF newCommit THEN @ + 1 ELSE @,
                 !.tasks[t].pc = "revparseAfter"]

\* variant that keeps the file cache when there are updates
RevparseAfterKeepsCache(s, t, ok) ==
  IF ~ok THEN Throw(s, t, "Failed to update repository")
  ELSE IF s.tasks[t].beforeHash # s.head
    THEN IndexBegin(s, t)
    ELSE Return(s, t, <<>>, <<FALSE>>)

\* git.revparse(['HEAD']) returns afterHash; with updates the file cache is
\* cleared and the handler re-indexes
RevparseAfterReturns(s, t, ok) ==
  IF ~ok THEN Throw(s, t, "Failed to update repository")
  ELSE IF s.tasks[t].beforeHash # s.head
    THEN IndexBegin([s EXCEPT !.fileCache = None], t)
    ELSE Return(s, t, <<>>, <<FALSE>>)

(***************************************************************************)
(* Actions: the start of a call, and the return of each await.             *)
(***************************************************************************)
Free(t) == tasks[t].pc = "idle"

\* the caller has its answer (the handler of index.ts sends the response)
\* and the call is over
Respond(t) ==
  /\ tasks[t].pc = "done"
  /\ tasks' = [tasks EXCEPT ![t] = IdleTask]
  /\ UNCHANGED <<documentIndex, indexed, embeddingsGenerated, initialized,
                 loads, fileCache, head>>

\* indexDocuments called again by a caller that has the result of its
\* previous call of indexDocuments and did nothing in between: the files
\* that call skipped and the index it left
PrevBuild(t) ==
  [valid |-> TRUE, index |-> documentIndex, fails |-> tasks[t].fails]

Call(t, op, query, options, path) ==
  [Cur EXCEPT !.tasks[t] = NewTask(op, query, options, path)]

StartIndexDocuments(t) ==
  /\ Free(t)
  /\ Becomes(IndexBegin(
       Call(t, "indexDocuments", <<>>, NoOptions, <<>>), t))

\* the same caller calls indexDocuments a second time in a row
RepeatIndexDocuments(t) ==
  /\ tasks[t].pc = "done"
  /\ tasks[t].op = "indexDocuments"
  /\ tasks[t].status = "ok"
  /\ ~tasks[t].prev.valid
  /\ Becomes(IndexBegin(
       [Cur EXCEPT !.tasks[t] =
          [NewTask("indexDocuments", <<>>, NoOptions, <<>>)
             EXCEPT !.prev = PrevBuild(t)]], t))

StartGenerateEmbeddings(t) ==
  /\ Free(t)
  /\ Becomes(EmbeddingsBegin(
       Call(t, "generateEmbeddings", <<>>, NoOptions, <<>>), t))

StartSearch(t, query, options) ==
  /\ Free(t)
  /\ Becomes(EnsureIndexed(Call(t, "search", query, options, <<>>), t))

StartGetDocByPath(t, path) ==
  /\ Free(t)
  /\ Becomes(EnsureIndexed(Call(t, "getDocByPath", <<>>, NoOptions, path), t))

StartGetDocsBySection(t, section) ==
  /\ Free(t)
  /\ Becomes(EnsureIndexed(
       Call(t, "getDocsBySection", <<>>, NoOptions, section), t))

StartUpdateDocs(t) ==
  /\ Free(t)
  /\ Becomes([Call(t, "update_docs", <<>>, NoOptions, <<>>)
                EXCEPT !.tasks[t].pc = "revparseBefore"])

GetAllDocsStep(t) ==
  /\ tasks[t].pc = "getAllDocs"
  /\ \E ok \in BOOLEAN : Becomes(GetAllDocsReturns(Cur, t, ok))

ReadDocStep(t) ==
  /\ tasks[t].pc = "readDoc"
  /\ \E ok \in BOOLEAN :
       /\ ok => InListing(tasks[t].allDocs[tasks[t].i], DiskListing(head))
       /\ Becomes(ReadDocReturns(Cur, t, ok))

AfterIndexStep(t) ==
  /\ tasks[t].pc = "afterIndex"
  /\ Becomes(Body(Cur, t))

InitializeStep(t) ==
  /\ tasks[t].pc = "initialize"
  /\ \E ok \in BOOLEAN : Becomes(InitializeReturns(Cur, t, ok))

EmbedDocStep(t, vectors) ==
  /\ tasks[t].pc = "embedDoc"
  /\ \/ Becomes(EmbedDocReturns(Cur, t, FALSE, NoEmbedding))
     \/ \E v \in vectors : Becomes(EmbedDocReturns(Cur, t, TRUE, v))

AfterEmbeddingsStep(t) ==
  /\ tasks[t].pc = "afterEmbeddings"
  /\ Becomes(EmbedQueryBegin(Cur, t))

EmbedQueryStep(t, vectors) ==
  /\ tasks[t].pc = "embedQuery"
  /\ \/ Becomes(EmbedQueryReturns(Cur, t, FALSE, NoEmbedding))
     \/ \E v \in vectors : Becomes(EmbedQueryReturns(Cur, t, TRUE, v))

RevparseBeforeStep(t) ==
  /\ tasks[t].pc = "revparseBefore"
  /\ \E ok \in BOOLEAN : Becomes(RevparseBeforeReturns(Cur, t, ok))

PullStep(t) ==
  /\ tasks[t].pc = "pull"
  /\ \E ok \in BOOLEAN, newCommit \in BOOLEAN :
       /\ newCommit => head < MaxHead
       /\ Becomes(PullReturns(Cur, t, ok, newCommit))

RevparseAfterStep(t) ==
  /\ tasks[t].pc = "revparseAfter"
  /\ \E ok \in BOOLEAN : Becomes(RevparseAfterReturns(Cur, t, ok))

(***************************************************************************)
(* Inputs.                                                                 *)
(***************************************************************************)
\* what the embedding model returns: vectors of integer norm
VecUp == <<0, 1>>
VecFlat == <<24, 7>>
VecMid == <<3, 4>>
VecZero == <<0, 0>>
VecLong == <<0, 0, 1>>
VecLow == <<12, 5>>

Opts(section, limit, minScore, useSemanticSearch) ==
  [section |-> section, limit |-> limit, minScore |-> minScore,
   useSemanticSearch |-> useSemanticSearch]

\* Spec: calls that overlap, few arguments
Searches ==
  { <<<<"a">>, NoOptions>>,
    <<<<"a">>, Opts(None, None, None, Some(FALSE))>> }
Paths == { <<"l", "/", "a", ".", "m", "d">> }
Sections == { <<"L">> }
DocVectors == { VecUp }
QueryVectors == { VecUp }

\* SpecSeq: one caller that awaits each call, many arguments
SeqQueries ==
  { <<>>, <<" ">>, <<"a">>, <<"b">>, <<"A", " ", " ", "b">>, <<".">>,
    <<"(">> }
SeqLimits == { None, Some(-1), Some(0), Some(1), Some(2), Some(60) }
SeqSectionFilters == { Some(<<"L">>), Some(<<"r">>) }
SeqOptionSet ==
  { Opts(None, lim, None, Some(FALSE)) : lim \in SeqLimits }
  \cup { Opts(None, lim, Some(Zero), Some(FALSE)) :
           lim \in { None, Some(-1), Some(1) } }
  \cup { Opts(sec, None, ms, Some(FALSE)) :
           sec \in SeqSectionFilters, ms \in { None, Some(Zero) } }
  \cup { Opts(None, None, Some(Rat(9, 1)), sem) :
           sem \in { Some(FALSE), Some(TRUE) } }
  \cup { Opts(None, lim, None, Some(TRUE)) :
           lim \in { Some(-1), Some(0), Some(1) } }
  \cup { Opts(sec, None, None, None) : sec \in SeqSectionFilters }
  \cup { Opts(Some(<<>>), None, None, Some(FALSE)) }
  \cup { NoOptions }
SeqPaths ==
  { <<"R", "/", "b">>, <<"R", "/", "b", ".", "m", "d">>,
    <<"l", "/", "a", ".", "m", "d">>, <<"n", "o">> }
SeqSections == { <<"L">>, <<"r">>, <<"n", "o">> }
SeqDocVectors == { VecUp, VecFlat }
SeqQueryVectors == { VecUp, VecMid, VecZero, VecLong, VecLow }

(***************************************************************************)
(* Specifications.                                                         *)
(***************************************************************************)
Next ==
  \E t \in Tasks :
    \/ StartIndexDocuments(t)
    \/ StartGenerateEmbeddings(t)
    \/ \E c \in Searches : StartSearch(t, c[1], c[2])
    \/ \E p \in Paths : StartGetDocByPath(t, p)
    \/ \E sec \in Sections : StartGetDocsBySection(t, sec)
    \/ StartUpdateDocs(t)
    \/ GetAllDocsStep(t)
    \/ ReadDocStep(t)
    \/ AfterIndexStep(t)
    \/ InitializeStep(t)
    \/ EmbedDocStep(t, DocVectors)
    \/ AfterEmbeddingsStep(t)
    \/ EmbedQueryStep(t, QueryVectors)
    \/ RevparseBeforeStep(t)
    \/ PullStep(t)
    \/ RevparseAfterStep(t)
    \/ Respond(t)

Spec == Init /\ [][Next]_vars

NextSeq ==
  \/ StartIndexDocuments(1)
  \/ RepeatIndexDocuments(1)
  \/ StartGenerateEmbeddings(1)
  \/ \E q \in SeqQueries, o \in SeqOptionSet : StartSearch(1, q, o)
  \/ \E p \in SeqPaths : StartGetDocByPath(1, p)
  \/ \E sec \in SeqSections : StartGetDocsBySection(1, sec)
  \/ StartUpdateDocs(1)
  \/ GetAllDocsStep(1)
  \/ ReadDocStep(1)
  \/ AfterIndexStep(1)
  \/ InitializeStep(1)
  \/ EmbedDocStep(1, SeqDocVectors)
  \/ AfterEmbeddingsStep(1)
  \/ EmbedQueryStep(1, SeqQueryVectors)
  \/ RevparseBeforeStep(1)
  \/ PullStep(1)
  \/ RevparseAfterStep(1)
  \/ Respond(1)

SpecSeq == Init /\ [][NextSeq]_vars

(***************************************************************************)
(* Properties.                                                             *)
(***************************************************************************)
\* a call of search that has returned a list for a non-blank query
SearchReturned(t) ==
  /\ tasks[t].pc = "done"
  /\ tasks[t].op = "search"
  /\ tasks[t].status = "ok"
  /\ Trim(tasks[t].query) # <<>>

KeywordReturned(t) ==
  SearchReturned(t) /\ ~UseSemanticSearch(tasks[t].options)

HybridReturned(t) ==
  SearchReturned(t) /\ UseSemanticSearch(tasks[t].options)

\* the records of a sequence of results, as a set of paths
PathsOf(results) == { results[k].doc.path : k \in 1..Len(results) }

HasEmbedding(doc) == doc.embedding # NoEmbedding

\* C1: whenever the embeddings-generated flag is set, every record of the
\* store has an embedding.
C1_FlagMeansAllEmbedded ==
  embeddingsGenerated =>
    \A k \in 1..Len(documentIndex) : HasEmbedding(documentIndex[k])

\* C2: search, getDocByPath and getDocsBySection never produce their result
\* while a rebuild started by another call is still in progress, that is from
\* a store that rebuild has cleared or only partly repopulated.
C2_ReadersWaitForRebuild ==
  [][\A t \in Tasks :
       ( /\ tasks[t].pc # "done"
         /\ tasks'[t].pc = "done"
         /\ tasks'[t].status = "ok"
         /\ tasks'[t].op \in {"search", "getDocByPath", "getDocsBySection"} )
       => \A u \in Tasks \ {t} : ~InRebuild(tasks[u])]_vars

\* the limit the caller asked for: options.limit, 10 when none is passed
RequestedLimit(options) ==
  IF IsSome(options.limit) THEN options.limit[1] ELSE 10

\* C3: search returns at most min(requested limit, 50) results, 10 standing
\* for a limit that is not passed, and at most as many as records qualify.
C3_CountWithinLimit ==
  \A t \in Tasks :
    (tasks[t].pc = "done" /\ tasks[t].op = "search" /\ tasks[t].status = "ok")
    => /\ Len(tasks[t].value) <= Min(RequestedLimit(tasks[t].options), 50)
       /\ Len(tasks[t].value) <= Len(tasks[t].results)

\* C4: the list search returns for a non-empty query is ordered by score,
\* non-increasing, in keyword-only mode and in hybrid mode.
C4_SortedByScore ==
  \A t \in Tasks :
    SearchReturned(t) =>
      \A k \in 1..(Len(tasks[t].value) - 1) :
        RatGeq(tasks[t].value[k].score, tasks[t].value[k + 1].score)

\* C4 witness: a search returned two results of different scores, the
\* better one from the record the store holds later.
C4_Witness ==
  \E t \in Tasks :
    /\ SearchReturned(t)
    /\ Len(tasks[t].value) >= 2
    /\ RatGt(tasks[t].value[1].score, tasks[t].value[2].score)
    /\ IndexPos(documentIndex, tasks[t].value[1].doc.path)
         > IndexPos(documentIndex, tasks[t].value[2].doc.path)

\* C5: a search with an empty or white-space-only query returns the empty
\* list whatever the state of the store and whether the corpus listing
\* succeeds or fails.
C5_BlankQueryReturnsEmpty ==
  \A t \in Tasks :
    ( /\ tasks[t].pc = "done"
      /\ tasks[t].op = "search"
      /\ Trim(tasks[t].query) = <<>> )
    => tasks[t].status = "ok" /\ tasks[t].value = <<>>

\* occurrences of a term in a text as a literal substring, counted left to
\* right without overlap
RECURSIVE LiteralCountFrom(_, _, _)
LiteralCountFrom(text, term, i) ==
  IF i + Len(term) > Len(text) THEN 0
  ELSE IF OccursAt(text, term, i)
    THEN 1 + LiteralCountFrom(text, term, i + Len(term))
    ELSE LiteralCountFrom(text, term, i + 1)

\* the score the claim states, in halves of a point: per term 10 for the
\* title, 5 for the path, 3 for the description, 0.5 per occurrence in the
\* body
RECURSIVE LiteralScoreHalves(_, _)
LiteralScoreHalves(doc, terms) ==
  IF terms = <<>> THEN 0
  ELSE
    LET term == Head(terms)
    IN  (IF Includes(ToLowerCase(doc.title), term) THEN 20 ELSE 0)
      + (IF Includes(ToLowerCase(doc.path), term) THEN 10 ELSE 0)
      + (IF IsSome(doc.description)
            /\ Includes(ToLowerCase(doc.description[1]), term)
           THEN 6 ELSE 0)
      + LiteralCountFrom(ToLowerCase(doc.plainText), term, 0)
      + LiteralScoreHalves(doc, Tail(terms))

\* C6: the keyword score of a record is the sum over the query terms of 10
\* (title), 5 (path), 3 (description) and 0.5 per literal occurrence in the
\* body, whatever characters the term holds.
C6_ScoreIsLiteralSum ==
  \A t \in Tasks :
    KeywordReturned(t) =>
      \A k \in 1..Len(tasks[t].results) :
        LET r == tasks[t].results[k]
        IN  r.score.num * 2
              = LiteralScoreHalves(r.doc, QueryTerms(tasks[t].query))
                  * r.score.den

\* the minimum of the claim: options.minScore when given, otherwise 0.1
ClaimedMinimum(options) ==
  IF IsSome(options.minScore) THEN options.minScore[1] ELSE Rat(1, 10)

\* the record passes the section filter of the call: no section is given,
\* the one given is empty, or it is the section of the record up to letter
\* case
InSection(doc, options) ==
  \/ ~IsSome(options.section)
  \/ Len(options.section[1]) = 0
  \/ ToLowerCase(doc.section) = ToLowerCase(options.section[1])

\* C7: in keyword-only mode the candidates are exactly the records that
\* pass the section filter and score at least the minimum (options.minScore
\* when given, 0 included, otherwise 0.1), and nothing is returned that is
\* not a candidate.
C7_KeywordCandidates ==
  \A t \in Tasks :
    KeywordReturned(t) =>
      LET o     == tasks[t].options
          terms == QueryTerms(tasks[t].query)
      IN  /\ PathsOf(tasks[t].results)
               = { documentIndex[k].path : k \in
                     { j \in 1..Len(documentIndex) :
                         /\ InSection(documentIndex[j], o)
                         /\ RatGeq(ScoreDocument(documentIndex[j], terms),
                                   ClaimedMinimum(o)) } }
          /\ Len(tasks[t].results) = Cardinality(PathsOf(tasks[t].results))
          /\ PathsOf(tasks[t].value) \subseteq PathsOf(tasks[t].results)
          /\ \A k \in 1..Len(tasks[t].value) :
               RatGeq(tasks[t].value[k].score, ClaimedMinimum(o))

\* C7 witness: a keyword search with minScore 0 returned a record that
\* scores 0.
C7_Witness ==
  \E t \in Tasks :
    /\ KeywordReturned(t)
    /\ tasks[t].options.minScore = Some(Zero)
    /\ \E k \in 1..Len(tasks[t].value) : tasks[t].value[k].score = Zero

\* the records a hybrid search may rank: section filter passed, embedded
HybridEligible(t) ==
  { j \in 1..Len(documentIndex) :
      /\ InSection(documentIndex[j], tasks[t].options)
      /\ HasEmbedding(documentIndex[j]) }

\* C8: in hybrid mode the results are exactly the eligible records whose
\* cosine similarity to the query embedding is at least 0.3, whatever their
\* keyword score and whatever options.minScore.
C8_SimilarityFloor ==
  \A t \in Tasks :
    HybridReturned(t) =>
      PathsOf(tasks[t].results)
        = { documentIndex[j].path : j \in
              { i \in HybridEligible(t) :
                  RatGeq(CosineSimilarity(tasks[t].queryEmbedding,
                                          documentIndex[i].embedding),
                         Rat(3, 10)) } }

\* C8 witness: a hybrid search with minScore 9 returned a record (its score
\* is below 9) and left out the record with the best keyword score, whose
\* similarity is below the floor.
C8_Witness ==
  \E t \in Tasks :
    /\ HybridReturned(t)
    /\ tasks[t].options.minScore = Some(Rat(9, 1))
    /\ tasks[t].value # <<>>
    /\ \E j \in HybridEligible(t) :
         /\ documentIndex[j].path \notin PathsOf(tasks[t].results)
         /\ \A i \in HybridEligible(t) :
              RatGeq(ScoreDocument(documentIndex[j], QueryTerms(tasks[t].query)),
                     ScoreDocument(documentIndex[i], QueryTerms(tasks[t].query)))
         /\ RatGt(ScoreDocument(documentIndex[j], QueryTerms(tasks[t].query)),
                  Zero)

\* a record as the parser made it
Fresh(doc) == [doc EXCEPT !.embedding = NoEmbedding]

\* C9: when a rebuild completes, the store holds exactly the records the
\* rebuild read and parsed, one per document, and the is-built flag is set.
C9_RebuildReplacesStore ==
  [][\A t \in Tasks :
       ( /\ InRebuild(tasks[t])
         /\ ~InRebuild(tasks'[t])
         /\ tasks'[t].status # "error" )
       => /\ indexed'
          /\ [k \in 1..Len(documentIndex') |-> Fresh(documentIndex'[k])]
               = tasks'[t].oks]_vars

\* C10: indexDocuments run a second time in a row, on the same corpus with
\* the same documents failing, leaves the store as the first run left it.
C10_RebuildIdempotent ==
  \A t \in Tasks :
    ( /\ tasks[t].pc = "done"
      /\ tasks[t].op = "indexDocuments"
      /\ tasks[t].status = "ok"
      /\ tasks[t].prev.valid
      /\ tasks[t].prev.fails = tasks[t].fails )
    => documentIndex = tasks[t].prev.index

\* C10 witness: the second run in a row completed, one document failing in
\* both runs and one indexed in both.
C10_Witness ==
  \E t \in Tasks :
    /\ tasks[t].pc = "done"
    /\ tasks[t].op = "indexDocuments"
    /\ tasks[t].status = "ok"
    /\ tasks[t].prev.valid
    /\ tasks[t].prev.fails = tasks[t].fails
    /\ Len(tasks[t].fails) = 1
    /\ Len(documentIndex) = 1

Readers == {"search", "getDocByPath", "getDocsBySection"}

\* a call that was not there before the step
Starts(t) == tasks[t].pc = "idle" /\ tasks'[t].pc # "idle"

\* the rebuild of a call ends in the step without an error, every document
\* of its listing read or skipped
RebuildCompletes(t) ==
  /\ InRebuild(tasks[t])
  /\ ~InRebuild(tasks'[t])
  /\ tasks'[t].status # "error"
  /\ Len(tasks'[t].oks) + Len(tasks'[t].fails) = Len(tasks'[t].allDocs)

\* C11: a reader (search, getDocByPath, getDocsBySection) begins with a
\* rebuild when the is-built flag is not set and runs none, then or later,
\* when it is set; the flag becomes set only in a step in which a rebuild
\* completes, and once set it stays set.
C11_FlagGatesRebuild ==
  [][ /\ \A t \in Tasks :
           (Starts(t) /\ tasks'[t].op \in Readers)
           => (InRebuild(tasks'[t]) <=> ~indexed)
      /\ \A t \in Tasks :
           ( /\ tasks'[t].op \in Readers
             /\ InRebuild(tasks'[t])
             /\ ~InRebuild(tasks[t]) )
           => (Starts(t) /\ ~indexed)
      /\ (indexed' /\ ~indexed) => \E t \in Tasks : RebuildCompletes(t)
      /\ indexed => indexed' ]_vars

\* C11 witness: a getDocByPath call that began with a rebuild of its own has
\* returned, and the flag is set.
C11_Witness ==
  \E t \in Tasks :
    /\ tasks[t].pc = "done"
    /\ tasks[t].op = "getDocByPath"
    /\ tasks[t].status = "ok"
    /\ tasks[t].oks # <<>>
    /\ indexed

DotMd == <<".", "m", "d">>

\* paths to look up: those of the records, and some that have no record
PathProbes ==
  { documentIndex[k].path : k \in 1..Len(documentIndex) }
    \cup { <<>>, <<"n", "o">>, <<"l", "/", "a">>, <<"R", "/", "b">>,
           <<"r", "/", "b">>, <<"l", "/", "x">>, <<"m", "d">> }

\* C12: for every path p that does not end in '.md', getDocByPath(p + '.md')
\* and getDocByPath(p) give the same value on the same store.
C12_MdSuffixIgnored ==
  \A p \in PathProbes :
    ~EndsWithMd(p)
    => GetDocByPathValue(documentIndex, p \o DotMd)
         = GetDocByPathValue(documentIndex, p)

\* C12 witness: getDocByPath of a path ending in '.md' has returned the
\* record that the path without the suffix gives.
C12_Witness ==
  \E t \in Tasks :
    /\ tasks[t].pc = "done"
    /\ tasks[t].op = "getDocByPath"
    /\ tasks[t].status = "ok"
    /\ EndsWithMd(tasks[t].path)
    /\ IsSome(tasks[t].value)
    /\ \E p \in PathProbes :
         /\ ~EndsWithMd(p)
         /\ tasks[t].path = p \o DotMd
         /\ tasks[t].value = GetDocByPathValue(documentIndex, p)

\* no record is stored under the path, with or without a final '.md'
NoRecordAt(path) ==
  \A k \in 1..Len(documentIndex) :
    documentIndex[k].path \notin {path, StripMd(path)}

\* no record is stored in the section, letter case ignored
NoRecordIn(section) ==
  \A k \in 1..Len(documentIndex) :
    ToLowerCase(documentIndex[k].section) # ToLowerCase(section)

\* the call of the step returns at once, without an error, the absent
\* value or the empty list (both the empty sequence), and the store and
\* its flags are as before
ReturnsNothing(t) ==
  /\ tasks'[t].pc = "done"
  /\ tasks'[t].status = "ok"
  /\ tasks'[t].value = <<>>
  /\ documentIndex' = documentIndex
  /\ indexed' = indexed
  /\ embeddingsGenerated' = embeddingsGenerated

\* C13: on a built store, getDocByPath of a path that has no record returns
\* null and getDocsBySection of a section that has no record returns the
\* empty list, without an error and without a change to the store.
C13_MissIsNotAnError ==
  [][\A t \in Tasks :
       (Starts(t) /\ indexed)
       => /\ ( /\ tasks'[t].op = "getDocByPath"
               /\ NoRecordAt(tasks'[t].path) ) => ReturnsNothing(t)
          /\ ( /\ tasks'[t].op = "getDocsBySection"
               /\ NoRecordIn(tasks'[t].path) ) => ReturnsNothing(t)]_vars

\* C13 witness: on a built store that holds records, getDocByPath of a path
\* without a record has returned null.
C13_Witness ==
  \E t \in Tasks :
    /\ tasks[t].pc = "done"
    /\ tasks[t].op = "getDocByPath"
    /\ tasks[t].status = "ok"
    /\ tasks[t].value = None
    /\ NoRecordAt(tasks[t].path)
    /\ tasks[t].oks = <<>>
    /\ indexed
    /\ documentIndex # <<>>

\* the embedding pass of a call ends in the step with an error
PassFails(t) ==
  /\ InEmbeddingPass(tasks[t])
  /\ tasks'[t].pc = "done"
  /\ tasks'[t].status = "error"

\* the call of the step is at the start of an embedding pass: the provider
\* is asked to initialize and no record has been visited
PassBegins(t) ==
  /\ tasks'[t].pc = "initialize"
  /\ tasks'[t].iter = 0

\* C14: when the embedding pass fails, on initialization or on a record,
\* the caller gets the error, the embeddings-generated flag is not set, the
\* embeddings attached so far stay, and the next generateEmbeddings call or
\* hybrid search begins a pass from the start.
C14_FailedPassIsNotReady ==
  [][\A t \in Tasks :
       /\ PassFails(t)
          => /\ tasks'[t].error \in {"Embedding initialization failed",
                                     "Embedding generation failed"}
             /\ ~embeddingsGenerated'
             /\ documentIndex' = documentIndex
       /\ ( /\ Starts(t)
            /\ ~embeddingsGenerated
            /\ tasks'[t].op = "generateEmbeddings" ) => PassBegins(t)
       /\ ( /\ Starts(t)
            /\ ~embeddingsGenerated
            /\ indexed
            /\ tasks'[t].op = "search"
            /\ Trim(tasks'[t].query) # <<>>
            /\ UseSemanticSearch(tasks'[t].options) ) => PassBegins(t)]_vars

\* C14 witness: generateEmbeddings has failed on a record after it embedded
\* another; the flag is not set.
C14_Witness ==
  \E t \in Tasks :
    /\ tasks[t].pc = "done"
    /\ tasks[t].op = "generateEmbeddings"
    /\ tasks[t].status = "error"
    /\ tasks[t].error = "Embedding generation failed"
    /\ ~embeddingsGenerated
    /\ \E k \in 1..Len(documentIndex) : HasEmbedding(documentIndex[k])
    /\ \E k \in 1..Len(documentIndex) : ~HasEmbedding(documentIndex[k])

\* a call of the operation returns in the step without an error
Completes(t, op) ==
  /\ tasks[t].pc # "done"
  /\ tasks'[t].pc = "done"
  /\ tasks'[t].op = op
  /\ tasks'[t].status = "ok"

\* C15: a generateEmbeddings call that completes leaves the
\* embeddings-generated flag set, the flag stays set, and a
\* generateEmbeddings call made while it is set returns at once: the
\* provider is not initialized, no embedding is requested, and the records
\* and both flags are as before.
C15_SecondPassIsNoOp ==
  [][ /\ \A t \in Tasks :
           Completes(t, "generateEmbeddings") => embeddingsGenerated'
      /\ embeddingsGenerated => embeddingsGenerated'
      /\ \A t \in Tasks :
           ( /\ Starts(t)
             /\ embeddingsGenerated
             /\ tasks'[t].op = "generateEmbeddings" )
           => /\ tasks'[t].pc = "done"
              /\ tasks'[t].status = "ok"
              /\ UNCHANGED <<documentIndex, indexed, embeddingsGenerated,
                             initialized, loads>> ]_vars

\* C15 witness: with one caller, generateEmbeddings has returned while a
\* record of the store has no embedding: the call did nothing, the flag
\* being set since an earlier pass.
C15_Witness ==
  \E t \in Tasks :
    /\ tasks[t].pc = "done"
    /\ tasks[t].op = "generateEmbeddings"
    /\ tasks[t].status = "ok"
    /\ embeddingsGenerated
    /\ \E k \in 1..Len(documentIndex) : ~HasEmbedding(documentIndex[k])

\* the section of the record is the given one, letter case ignored
SectionIs(doc, section) == ToLowerCase(doc.section) = ToLowerCase(section)

\* C16: with options.section given, every result of search, keyword-only or
\* hybrid, is a record of that section (letter case ignored), and
\* getDocsBySection(name) returns exactly the stored records of section
\* name (letter case ignored).
C16_SectionFilter ==
  \A t \in Tasks :
    /\ (SearchReturned(t) /\ IsSome(tasks[t].options.section))
       => \A k \in 1..Len(tasks[t].results) :
            SectionIs(tasks[t].results[k].doc, tasks[t].options.section[1])
    /\ ( /\ tasks[t].pc = "done"
         /\ tasks[t].op = "getDocsBySection"
         /\ tasks[t].status = "ok" )
       => tasks[t].value
            = SelectSeq(documentIndex,
                        LAMBDA d : SectionIs(d, tasks[t].path))

\* the condition the claim gives for keyword-only mode
KeywordOnlyAsked(options) ==
  \/ options.useSemanticSearch = Some(FALSE)
  \/ options.useSemanticSearch = None /\ ~SemanticSearchEnabled

\* the positions of a call inside the hybrid mode: the embedding pass and
\* the embedding of the query
HybridPositions == {"initialize", "embedDoc", "afterEmbeddings", "embedQuery"}

\* the embeddings of the store
Embeddings(index) ==
  { <<index[k].path, index[k].embedding>> :
      k \in { j \in 1..Len(index) : HasEmbedding(index[j]) } }

\* a search that returns in the step does so from the mode its option asks
\* for: from the embedding of the query in hybrid mode, without having
\* entered it in keyword-only mode
ModeFollowsOption(t) ==
  IF KeywordOnlyAsked(tasks'[t].options)
    THEN tasks[t].pc \notin HybridPositions
    ELSE tasks[t].pc = "embedQuery"

\* a keyword-only search leaves the provider, the embeddings and the
\* embeddings-generated flag alone
KeywordOnlyFrame(t) ==
  ( /\ tasks'[t].op = "search"
    /\ KeywordOnlyAsked(tasks'[t].options) )
  => /\ tasks'[t].pc \notin HybridPositions
     /\ initialized' = initialized
     /\ loads' = loads
     /\ embeddingsGenerated' = embeddingsGenerated
     /\ Embeddings(documentIndex') = Embeddings(documentIndex)

Backtick == "@"
Fence == <<Backtick, Backtick, Backtick>>
CodeExample ==
  <<"[", "c", "o", "d", "e", " ", "e", "x", "a", "m", "p", "l", "e", "]">>
Dashes == <<"-", "-", "-">>
StructureTitle ==
  <<"\n", "*", "*", "C", "o", "n", "t", "e", "n", "t", " ", "s", "t", "r",
    "u", "c", "t", "u", "r", "e", ":", "*", "*", "\n">>

\* s from 0-based position i on
From(s, i) == Slice(s, i, Len(s))

\* content.replace(/```[\s\S]*?```/g, '[code example]'): each fence up to
\* the next one, left to right
RECURSIVE ReplaceCodeBlocks(_)
CloseCodeBlock(s, open, rel) ==
  IF rel = -1 THEN s
  ELSE Slice(s, 0, open) \o CodeExample
         \o ReplaceCodeBlocks(From(s, open + 3 + rel + 3))

OpenCodeBlock(s, open) ==
  IF open = -1 THEN s
  ELSE CloseCodeBlock(s, open, IndexOf(From(s, open + 3), Fence))

ReplaceCodeBlocks(s) == OpenCodeBlock(s, IndexOf(s, Fence))

\* summary.replace(/^---[\s\S]*?---\n/, '')
CutFrontmatter(s, rel) == IF rel = -1 THEN s ELSE From(s, 3 + rel + 4)

RemoveFrontmatter(s) ==
  IF OccursAt(s, Dashes, 0)
    THEN CutFrontmatter(s, IndexOf(From(s, 3), Dashes \o <<"\n">>))
    ELSE s

\* split(/\n\n+/): a run of two or more newlines separates
RECURSIVE DropNewlines(_)
DropNewlines(s) ==
  IF s # <<>> /\ Head(s) = "\n" THEN DropNewlines(Tail(s)) ELSE s

RECURSIVE SplitParagraphs(_, _)
SplitParagraphs(s, cur) ==
  IF s = <<>> THEN <<cur>>
  ELSE IF OccursAt(s, <<"\n", "\n">>, 0)
    THEN <<cur>> \o SplitParagraphs(DropNewlines(s), <<>>)
    ELSE SplitParagraphs(Tail(s), Append(cur, Head(s)))

TrimAll(parts) == [k \in 1..Len(parts) |-> Trim(parts[k])]

\* .map(p => p.trim()).filter(p => p.length > 20 && !p.startsWith('#'))
Paragraphs(summary) ==
  SelectSeq(TrimAll(SplitParagraphs(summary, <<>>)),
            LAMBDA q : Len(q) > 20 /\ q[1] # "#")

\* the number of '#' a line starts with
RECURSIVE Hashes(_)
Hashes(line) ==
  IF line # <<>> /\ Head(line) = "#" THEN 1 + Hashes(Tail(line)) ELSE 0

\* the line matches /^#{1,3}\s+(.+)$/
AfterHashesIsTitle(rest) == Len(rest) >= 2 /\ IsSpace(rest[1])

IsHeading(line) ==
  /\ Hashes(line) \in 1..3
  /\ AfterHashesIsTitle(From(line, Hashes(line)))

\* h.replace(/^#+\s*/, '- ')
HeadingItem(line) == <<"-", " ">> \o TrimStart(From(line, Hashes(line)))

ItemsOf(lines) == [k \in 1..Len(lines) |-> HeadingItem(lines[k])]

\* content.match(/^#{1,3}\s+(.+)$/gm), then slice(0, 5) and the map
Headings(content) ==
  ItemsOf(SliceTo(SelectSeq(Split(content, "\n"), IsHeading), 5))

\* the loop over paragraphs.slice(0, 3), with its break
RECURSIVE BuildSummary(_, _, _)
BuildSummary(result, paragraphs, maxLength) ==
  IF paragraphs = <<>> THEN result
  ELSE IF Len(result) + Len(Head(paragraphs)) > maxLength THEN result
  ELSE BuildSummary(result \o Head(paragraphs) \o <<"\n", "\n">>,
                    Tail(paragraphs), maxLength)

\* headings.length > 0 && result.length < maxLength * 0.7
AddStructure(result, headings, maxLength) ==
  IF headings # <<>> /\ 10 * Len(result) < 7 * maxLength
    THEN result \o StructureTitle \o Join(headings, <<"\n">>)
    ELSE result

\* result.length > maxLength: result.slice(0, maxLength) + '...'
Truncate(result, maxLength) ==
  IF Len(result) > maxLength
    THEN Slice(result, 0, maxLength) \o Ellipsis
    ELSE result

SummarizeContent(content, maxLength) ==
  Trim(Truncate(
    AddStructure(
      BuildSummary(<<>>,
        SliceTo(Paragraphs(RemoveFrontmatter(ReplaceCodeBlocks(content))), 3),
        maxLength),
      Headings(content), maxLength),
    maxLength))

(***************************************************************************)
(* The functions called on their own: a call is made with arguments drawn  *)
(* from a set, and returns or throws.  The first argument is kept in the   *)
(* field query of the call and the second in the field path.               *)
(***************************************************************************)
\* embeddingService.cosineSimilarity(a, b)
CosineSimilarityCall(s, t) ==
  IF CosineThrows(s.tasks[t].query, s.tasks[t].path)
    THEN Throw(s, t, "Vectors must have same length")
    ELSE Return(s, t, <<>>,
                Some(CosineSimilarity(s.tasks[t].query, s.tasks[t].path)))

CosineSimilarityStep(t) ==
  /\ tasks[t].pc = "start"
  /\ tasks[t].op = "cosineSimilarity"
  /\ Becomes(CosineSimilarityCall(Cur, t))

\* summarizeContent(content, maxLength): the length is kept in the field
\* limit of the options of the call
SummarizeContentCall(s, t) ==
  Return(s, t, <<>>,
         Some(SummarizeContent(s.tasks[t].query,
                               s.tasks[t].options.limit[1])))

SummarizeContentStep(t) ==
  /\ tasks[t].pc = "start"
  /\ tasks[t].op = "summarizeContent"
  /\ Becomes(SummarizeContentCall(Cur, t))

Repeat(c, n) == [k \in 1..n |-> c]

\* one paragraph; a heading and a paragraph; two paragraphs; a short text;
\* a code block and a paragraph; frontmatter and a paragraph
FnContents ==
  { Repeat("x", 30),
    <<"#", " ", "T", "i", "\n", "\n">> \o Repeat("x", 30),
    Repeat("x", 22) \o <<"\n", "\n", "\n">> \o Repeat("y", 22),
    <<"a", "b", "c">>,
    Fence \o Repeat("c", 12) \o Fence \o <<" ">> \o Repeat("x", 10),
    Dashes \o <<"\n", "t", "\n">> \o Dashes \o <<"\n">> \o Repeat("x", 25) }
FnMaxLengths == { 0, 10, 21, 25, 29, 30, 31, 50, 60 }

VecOne == <<1>>
FnVectors == { VecOne, VecUp, VecFlat, VecMid, VecZero, VecLong }

CosineCalls ==
  { NewTask("cosineSimilarity", a, NoOptions, b) :
      a \in FnVectors, b \in FnVectors }

SummarizeCalls ==
  { NewTask("summarizeContent", content,
            Opts(None, Some(maxLength), None, None), <<>>) :
      content \in FnContents, maxLength \in FnMaxLengths }

\* the text of a record that generateEmbeddings hands to generateEmbedding:
\* `${title}. ${description || ''}. ${plainText.slice(0, 1000)}`
EmbeddingBodyLength == 1000
MaxTextLength == 2000

\* variant that takes the whole body
EmbeddingTextWhole(doc) ==
  doc.title \o <<".", " ">>
    \o (IF IsSome(doc.description) THEN doc.description[1] ELSE <<>>)
    \o <<".", " ">> \o doc.plainText

EmbeddingText(doc) ==
  doc.title \o <<".", " ">>
    \o (IF IsSome(doc.description) THEN doc.description[1] ELSE <<>>)
    \o <<".", " ">>
    \o Slice(doc.plainText, 0, Min(EmbeddingBodyLength, Len(doc.plainText)))

\* generateEmbedding: text.slice(0, 2000), the argument of the pipeline
Truncated(text) == Slice(text, 0, Min(MaxTextLength, Len(text)))

\* the body of the loop of generateEmbeddings for the one record of the
\* store, up to the call of the pipeline: what the model is given
EmbedRecordCall(s, t) ==
  Return(s, t, <<>>, Some(Truncated(EmbeddingText(s.documentIndex[1]))))

EmbedRecordStep(t) ==
  /\ tasks[t].pc = "start"
  /\ tasks[t].op = "embedRecord"
  /\ Becomes(EmbedRecordCall(Cur, t))

\* generateEmbedding(query) of semanticSearch up to the call of the
\* pipeline: what the model is given
EmbedTextCall(s, t) == Return(s, t, <<>>, Some(Truncated(s.tasks[t].query)))

EmbedTextStep(t) ==
  /\ tasks[t].pc = "start"
  /\ tasks[t].op = "embedText"
  /\ Becomes(EmbedTextCall(Cur, t))

FnLongTitles == { Some(<<"T">>), Some(Repeat("t", 1100)) }
FnLongDescriptions ==
  { None, Some(<<>>), Some(<<"d", " ", "e">>), Some(Repeat("d", 950)) }
FnLongBodies == { <<"a", "b", " ", "c", "d">>, Repeat("x", 1200) }
FnLongDocs ==
  { ParseMarkdown([title |-> ti, description |-> d, body |-> b], FileX) :
      ti \in FnLongTitles, d \in FnLongDescriptions, b \in FnLongBodies }
FnTexts ==
  { <<"a", " ", "b">>, Repeat("q", 1999), Repeat("q", 2000),
    Repeat("q", 2001), Repeat("q", 3000) }

EmbedRecordCalls == { NewTask("embedRecord", <<>>, NoOptions, <<>>) }
EmbedTextCalls ==
  { NewTask("embedText", text, NoOptions, <<>>) : text \in FnTexts }

\* generateSnippet(doc, queryTerms) on the one record of a built store, with
\* the terms that search makes of its query
GenerateSnippetCall(s, t) ==
  Return(s, t, <<>>,
         Some(GenerateSnippet(s.documentIndex[1],
                              QueryTerms(s.tasks[t].query))))

GenerateSnippetStep(t) ==
  /\ tasks[t].pc = "start"
  /\ tasks[t].op = "generateSnippet"
  /\ Becomes(GenerateSnippetCall(Cur, t))

\* bodies: a match in the middle of a long text, at its start, at its end,
\* in a short text with a capital, and a long text of one word
FnBodies ==
  { Repeat("x", 90) \o <<" ", "a", "b", " ">> \o Repeat("y", 90),
    <<"a", "b", " ">> \o Repeat("x", 100),
    Repeat("x", 100) \o <<" ", "a", "b">>,
    <<"A", "b", " ", "c", "d">>,
    Repeat("x", 160) }
FnDescriptions == { None, Some(<<>>), Some(<<"d", " ", "e">>) }
FnDocs ==
  { ParseMarkdown([title |-> None, description |-> d, body |-> b], FileX) :
      d \in FnDescriptions, b \in FnBodies }
FnQueries ==
  { <<"a", "b">>, <<"a", " ", "a", "b">>, <<"a", "b", " ", "a">>,
    <<"b", " ", "a">>, <<"y", " ", "x">>, <<"z">>, <<"z", " ", "A", "B">>,
    <<"c", "d", " ", "z">> }

SnippetCalls ==
  { NewTask("generateSnippet", query, NoOptions, <<>>) : query \in FnQueries }

CalledWith(c) == tasks = [t \in Tasks |-> IF t = 1 THEN c ELSE IdleTask]

InitFn ==
  /\ embeddingsGenerated = FALSE
  /\ initialized = FALSE
  /\ loads = 0
  /\ fileCache = None
  /\ head = 0
  /\ \/ /\ documentIndex = <<>>
        /\ indexed = FALSE
        /\ \/ \E c \in CosineCalls : CalledWith(c)
           \/ \E c \in SummarizeCalls : CalledWith(c)
           \/ \E c \in EmbedTextCalls : CalledWith(c)
     \/ /\ \E doc \in FnDocs : documentIndex = <<doc>>
        /\ indexed = TRUE
        /\ \E c \in SnippetCalls : CalledWith(c)
     \/ /\ \E doc \in FnLongDocs : documentIndex = <<doc>>
        /\ indexed = TRUE
        /\ \E c \in EmbedRecordCalls : CalledWith(c)

NextFn ==
  \/ CosineSimilarityStep(1)
  \/ SummarizeContentStep(1)
  \/ GenerateSnippetStep(1)
  \/ EmbedRecordStep(1)
  \/ EmbedTextStep(1)

SpecFn == InitFn /\ [][NextFn]_vars

\* C18: cosineSimilarity of two vectors of different lengths throws
\* 'Vectors must have same length' and returns no value.
C18_LengthMismatchThrows ==
  \A t \in Tasks :
    ( /\ tasks[t].pc = "done"
      /\ tasks[t].op = "cosineSimilarity"
      /\ Len(tasks[t].query) # Len(tasks[t].path) )
    => /\ tasks[t].status = "error"
       /\ tasks[t].error = "Vectors must have same length"
       /\ tasks[t].value = <<>>

\* C18 witness: the call has thrown for a first vector longer than the
\* second.
C18_Witness ==
  \E t \in Tasks :
    /\ tasks[t].pc = "done"
    /\ tasks[t].op = "cosineSimilarity"
    /\ Len(tasks[t].query) > Len(tasks[t].path)
    /\ tasks[t].status = "error"

\* the content is one paragraph: no newline, no code block, no
\* frontmatter, no heading, and long enough to count as a paragraph
SingleParagraph(content) ==
  /\ Len(content) > 20
  /\ \A k \in 1..Len(content) : content[k] \notin {"\n", Backtick, "#", "-", " "}

\* C19: summarizeContent(content, maxLength) of a single paragraph longer
\* than maxLength is the first maxLength characters of the content followed
\* by '...': its length is maxLength + 3 and it ends in '...'.
C19_TruncatesLongParagraph ==
  \A t \in Tasks :
    ( /\ tasks[t].pc = "done"
      /\ tasks[t].op = "summarizeContent"
      /\ SingleParagraph(tasks[t].query)
      /\ Len(tasks[t].query) > tasks[t].options.limit[1] )
    => /\ tasks[t].status = "ok"
       /\ tasks[t].value
            = Some(Slice(tasks[t].query, 0, tasks[t].options.limit[1])
                     \o Ellipsis)
       /\ Len(tasks[t].value[1]) = tasks[t].options.limit[1] + 3

\* the similarity of a result to the query embedding of its call
SimilarityOf(t, result) ==
  CosineSimilarity(tasks[t].queryEmbedding, result.doc.embedding)

\* 0.3 x (keyword score / 100) + 0.7 x similarity
WeightedSum(keywordScore, similarity) ==
  RatAdd(RatMul(Rat(3, 10), RatMul(keywordScore, Rat(1, 100))),
         RatMul(Rat(7, 10), similarity))

\* C20: the score of each hybrid-mode result equals
\* 0.3 x (keyword score / 100) + 0.7 x (cosine similarity of the query
\* embedding and the record's embedding), and the similarity floor 0.3 is
\* met by the similarity alone.
C20_HybridScoreFormula ==
  \A t \in Tasks :
    HybridReturned(t) =>
      \A k \in 1..Len(tasks[t].results) :
        /\ tasks[t].results[k].score
             = WeightedSum(ScoreDocument(tasks[t].results[k].doc,
                                         QueryTerms(tasks[t].query)),
                           SimilarityOf(t, tasks[t].results[k]))
        /\ RatGeq(SimilarityOf(t, tasks[t].results[k]), Rat(3, 10))

\* a hybrid result with a keyword score above zero whose combined score is
\* below the floor that its similarity passes
C20_Witness ==
  \E t \in Tasks :
    /\ HybridReturned(t)
    /\ \E k \in 1..Len(tasks[t].results) :
         /\ RatGt(ScoreDocument(tasks[t].results[k].doc,
                                QueryTerms(tasks[t].query)), Zero)
         /\ RatGt(Rat(3, 10), tasks[t].results[k].score)
         /\ RatGeq(SimilarityOf(t, tasks[t].results[k]), Rat(3, 10))

\* every record of the store has an embedding
AllEmbedded == \A k \in 1..Len(documentIndex) : HasEmbedding(documentIndex[k])

\* C21: when a generateEmbeddings call has completed without an error, no
\* rebuild overlapping it, every record of the store has an embedding and
\* the embeddings-generated flag is set; and the flag is never set while a
\* record of the store has no embedding.
C21_PassEmbedsEveryRecord ==
  /\ \A t \in Tasks :
       ( /\ tasks[t].pc = "done"
         /\ tasks[t].op = "generateEmbeddings"
         /\ tasks[t].status = "ok" )
       => (embeddingsGenerated /\ AllEmbedded)
  /\ embeddingsGenerated => AllEmbedded

\* the call is waiting for the model pipeline that it has asked for
Loading(task) == task.pc = "initialize" /\ task.loading

\* C22: the model pipeline is loaded at most once as long as the load
\* succeeds: a call asks for it only when the service is not initialized
\* and no other call is waiting for it.
C22_PipelineLoadedOnce ==
  [][\A t \in Tasks :
       (~Loading(tasks[t]) /\ Loading(tasks'[t]))
       => /\ ~initialized
          /\ \A u \in Tasks \ {t} : ~Loading(tasks[u])]_vars

\* a call of generateSnippet has returned
SnippetReturned(t) ==
  /\ tasks[t].pc = "done"
  /\ tasks[t].op = "generateSnippet"
  /\ tasks[t].status = "ok"

\* the positions of the body at which the term occurs, letter case ignored
PositionsOf(text, term) == { k \in 0..Len(text) : OccursAt(text, term, k) }

Occurrences(body, term) == PositionsOf(ToLowerCase(body), term)

\* the term occurs at the position and no term occurs before it
SmallestOccurrence(body, terms, term, position) ==
  /\ position \in Occurrences(body, term)
  /\ \A k \in 1..Len(terms) :
       \A q \in Occurrences(body, terms[k]) : q >= position

\* the window of the claim around a match of the given length
WindowStart(position) == IF position > 75 THEN position - 75 ELSE 0

WindowEnd(body, position, length) ==
  IF position + length + 75 < Len(body)
    THEN position + length + 75 ELSE Len(body)

Window(body, from, to) ==
  (IF from # 0 THEN <<".", ".", ".">> ELSE <<>>)
    \o [k \in 1..(to - from) |-> body[from + k]]
    \o (IF to # Len(body) THEN <<".", ".", ".">> ELSE <<>>)

WindowAround(body, position, length) ==
  Window(body, WindowStart(position), WindowEnd(body, position, length))

NoTermOccurs(t) ==
  \A k \in 1..Len(QueryTerms(tasks[t].query)) :
    Occurrences(documentIndex[1].plainText, QueryTerms(tasks[t].query)[k])
      = {}

\* the first n characters of the text, or all of it when it is shorter
FirstChars(text, n) ==
  [k \in 1..(IF Len(text) < n THEN Len(text) ELSE n) |-> text[k]]

HasDescription(doc) ==
  Len(doc.description) = 1 /\ Len(doc.description[1]) > 0

\* C24: when no query term occurs in the body, the snippet is the record's
\* description if it has a non-empty one, and otherwise the first 150
\* characters of the body followed by '...'.
C24_SnippetFallback ==
  \A t \in Tasks :
    (SnippetReturned(t) /\ NoTermOccurs(t))
    => tasks[t].value
         = Some(IF HasDescription(documentIndex[1])
                  THEN documentIndex[1].description[1]
                  ELSE FirstChars(documentIndex[1].plainText, 150)
                         \o <<".", ".", ".">>)

\* C24 witness: the record has an empty description and a body of more
\* than 150 characters in which no term occurs; the snippet has 153
C24_Witness ==
  \E t \in Tasks :
    /\ SnippetReturned(t)
    /\ NoTermOccurs(t)
    /\ documentIndex[1].description = Some(<<>>)
    /\ Len(documentIndex[1].plainText) > 150
    /\ Len(tasks[t].value[1]) = 153

\* the orderings of a list of terms
Orderings(terms) ==
  { [k \in 1..Len(terms) |-> terms[p[k]]] :
      p \in Permutations(1..Len(terms)) }

\* C30: the snippet of a record does not depend on the order of the query
\* terms: every ordering of the terms of the call gives the snippet the
\* call returned, also when two terms first occur at the same position.
C30_SnippetIgnoresTermOrder ==
  \A t \in Tasks :
    SnippetReturned(t) =>
      \A terms \in Orderings(QueryTerms(tasks[t].query)) :
        GenerateSnippet(documentIndex[1], terms) = tasks[t].value[1]

\* a call of the operation has returned
Returned(t, op) ==
  /\ tasks[t].pc = "done"
  /\ tasks[t].op = op
  /\ tasks[t].status = "ok"

DescriptionOrEmpty(doc) ==
  IF Len(doc.description) = 1 THEN doc.description[1] ELSE <<>>

\* title, '. ', description, '. ', first 1000 characters of the body
TextOfRecord(doc) ==
  doc.title \o <<".", " ">> \o DescriptionOrEmpty(doc) \o <<".", " ">>
    \o FirstChars(doc.plainText, 1000)

\* C25: the text handed to the embedding model for a record is the first
\* 2000 characters of title, '. ', description (empty when absent), '. ',
\* first 1000 characters of the body; the text handed over for a query is
\* its first 2000 characters; no text handed over is longer than 2000.
C25_EmbeddingText ==
  \A t \in Tasks :
    /\ Returned(t, "embedRecord")
       => /\ tasks[t].value
               = Some(FirstChars(TextOfRecord(documentIndex[1]), 2000))
          /\ Len(tasks[t].value[1]) <= 2000
    /\ Returned(t, "embedText")
       => /\ tasks[t].value = Some(FirstChars(tasks[t].query, 2000))
          /\ Len(tasks[t].value[1]) <= 2000

\* C25 witness: a record with a body of more than 1000 characters whose
\* text was cut at 2000
C25_Witness ==
  \E t \in Tasks :
    /\ Returned(t, "embedRecord")
    /\ Len(documentIndex[1].plainText) > 1000
    /\ Len(TextOfRecord(documentIndex[1])) > 2000
    /\ Len(tasks[t].value[1]) = 2000

\* the call enters getAllDocs in the step
CallsGetAllDocs(t) ==
  tasks[t].pc # "getAllDocs" /\ tasks'[t].pc = "getAllDocs"

\* updateRepo of the call comes to its end in the step
UpdateRepoEnds(t) ==
  tasks[t].pc \in {"revparseBefore", "pull", "revparseAfter"}
    /\ tasks'[t].pc \notin {"revparseBefore", "pull", "revparseAfter"}

\* ... and has seen another HEAD after the pull than before it
UpdateRepoSeesChange(t) ==
  /\ UpdateRepoEnds(t)
  /\ tasks[t].pc = "revparseAfter"
  /\ tasks'[t].status # "error"
  /\ tasks[t].beforeHash # head

\* C26: getAllDocs scans the file system only when no listing is cached
\* and otherwise returns the cached listing; the cache is cleared exactly
\* when updateRepo sees that HEAD changed after the pull, and an updateRepo
\* that pulls no change or that fails leaves the cached listing as it is.
C26_ListingCache ==
  [][ /\ \A t \in Tasks :
           CallsGetAllDocs(t)
           => /\ tasks'[t].scan <=> (fileCache' = None)
              /\ ~tasks'[t].scan => tasks'[t].allDocs = fileCache'[1]
      /\ (fileCache' # fileCache /\ fileCache' # None)
           => \E t \in Tasks : tasks[t].pc = "getAllDocs" /\ tasks[t].scan
      /\ \A t \in Tasks : UpdateRepoSeesChange(t) => fileCache' = None
      /\ \A t \in Tasks :
           (UpdateRepoEnds(t) /\ ~UpdateRepoSeesChange(t))
           => fileCache' = fileCache
      /\ (fileCache # None /\ fileCache' = None)
           => \E t \in Tasks : UpdateRepoSeesChange(t) ]_vars

\* C26 witness: after an update that brought a new HEAD the listing was
\* scanned again and cached, and a later rebuild takes it from the cache
C26_Witness ==
  \E t \in Tasks :
    /\ tasks[t].pc = "getAllDocs"
    /\ ~tasks[t].scan
    /\ head > 0
    /\ fileCache = Some(DiskListing(head))
    /\ tasks[t].allDocs = DiskListing(head)

\* the rebuild of the call fails in the step because getAllDocs rejects
ListingFails(t) ==
  /\ tasks[t].pc = "getAllDocs"
  /\ tasks'[t].pc = "done"
  /\ tasks'[t].status = "error"
  /\ tasks'[t].error = "getAllDocs"

\* C27: a rebuild that fails because getAllDocs rejects leaves the store as
\* it was before the call, records and is-built flag, so that a store
\* flagged as built is not left empty by it.
C27_FailedRebuildKeepsStore ==
  [][\A t \in Tasks :
       ListingFails(t)
       => /\ documentIndex' = tasks[t].before
          /\ indexed' = indexed]_vars

\* C28: on a built store a keyword-only search with a non-empty query
\* returns a list and does not raise, whatever characters its terms hold.
C28_KeywordSearchNeverRaises ==
  [][\A t \in Tasks :
       ( /\ Starts(t)
         /\ indexed
         /\ tasks'[t].op = "search"
         /\ ~UseSemanticSearch(tasks'[t].options)
         /\ Len(tasks'[t].query) > 0 )
       => /\ tasks'[t].pc = "done"
          /\ tasks'[t].status = "ok"]_vars

\* C29: every record of a built store can be fetched by its own key:
\* getDocByPath(r.path) returns r.
C29_FetchByOwnKey ==
  \A t \in Tasks :
    Returned(t, "getDocByPath") =>
      \A k \in 1..Len(documentIndex) :
        documentIndex[k].path = tasks[t].path
        => tasks[t].value = Some(documentIndex[k])

====
